---- MODULE Spec2Model ----
(***************************************************************************)
(* State-machine model of data_generation.py: the three simulators         *)
(* (generate_data, generate_data_unforced, generate_two_link_data), the    *)
(* process-global torch generator they seed and draw from, and the dataset *)
(* splitters that call them.                                                *)
(*                                                                         *)
(* Numbers.  The code computes in floating point.  The model computes in   *)
(* fixed point: the integer n stands for the real n / Scale, products and  *)
(* quotients are rounded to the nearest representable value as float32     *)
(* rounds to its nearest.  Indices are 0-based as in the source: a tensor  *)
(* of shape [n] is a function on 0..n-1.                                   *)
(***************************************************************************)
EXTENDS Integers, Sequences, FiniteSets, TLC

VARIABLES
    gen,    \* state of the process-global default generator of torch
    frame,  \* frame[th]: the simulator call thread th is executing
    drv,    \* drv[th]: the caller of the simulators in thread th
    log     \* log[th]: the simulator calls thread th has completed, in order

vars == <<gen, frame, drv, log>>

Threads == {1, 2}

---------------------------------------------------------------------------
(* Bounds of the model *)

Scale == 100        \* fixed-point resolution: n stands for n / Scale
GenMod == 16        \* number of states of the modelled generator
MaxSeed == 2        \* seeds of the free programs are 0..MaxSeed
MaxCalls == 3       \* calls a free sequential program makes
MaxT == 3           \* horizons T of a single call are 0..MaxT
MaxN == 12          \* totals N of the splitters are 0..MaxN (and 100)

---------------------------------------------------------------------------
(* Fixed-point arithmetic *)

Fx(n, d) == (n * Scale) \div d

\* a / b rounded to the nearest integer, b > 0
RoundDiv(a, b) == (2 * a + b) \div (2 * b)

Mul(a, b) == RoundDiv(a * b, Scale)

\* a / b; the inputs of the model keep every divisor non-zero
Div(a, b) == IF b > 0 THEN RoundDiv(a * Scale, b) ELSE 0 - RoundDiv(a * Scale, 0 - b)

Pi == Fx(314159, 100000)

\* cos on [0, pi/2] by its Taylor polynomial
CosQ(y) ==
    LET y2 == Mul(y, y)
        y4 == Mul(y2, y2)
        y6 == Mul(y4, y2)
    IN  Scale - RoundDiv(y2, 2) + RoundDiv(y4, 24) - RoundDiv(y6, 720)

\* torch.cos: reduction to [0, 2 pi), then to [0, pi], then to [0, pi/2]
Cos(x) ==
    LET r == x % (2 * Pi)
        s == IF r > Pi THEN 2 * Pi - r ELSE r
    IN  IF 2 * s > Pi THEN 0 - CosQ(Pi - s) ELSE CosQ(s)

\* torch.sin
Sin(x) == Cos(x - RoundDiv(Pi, 2))

---------------------------------------------------------------------------
(* The global generator *)

GenNext(g) == (5 * g + 3) % GenMod

\* GenNext applied k times is g |-> (c[1] * g + c[2]) % GenMod, c == Jump(k)
RECURSIVE Jump(_)
Jump(k) ==
    IF k = 0 THEN <<1, 0>>
    ELSE IF k % 2 = 1
         THEN LET c == Jump(k - 1) IN <<(5 * c[1]) % GenMod, (5 * c[2] + 3) % GenMod>>
         ELSE LET c == Jump(k \div 2)
              IN  <<(c[1] * c[1]) % GenMod, (c[1] * c[2] + c[2]) % GenMod>>

\* the generator state k draws after state g
Advance(g, k) == LET c == Jump(k) IN (c[1] * g + c[2]) % GenMod

\* the uniform value in [0, 1) the generator yields in state g
Uniform(g) == (g * Scale) \div GenMod

\* torch.rand(n): n consecutive draws, in row-major order
rand(g, n) == [k \in 0..(n - 1) |-> Uniform(Advance(g, k))]

\* variant: the call leaves the generator as it finds it
manual_seed_keep(g, seed) == g

\* torch.manual_seed(seed): the state depends on the seed alone
manual_seed(g, seed) == seed % GenMod

---------------------------------------------------------------------------
(* Frames *)

Forced == "generate_data"
Unforced == "generate_data_unforced"
TwoLink == "generate_two_link_data"

NoArgs == [numICs |-> 0, T |-> 0]

IdleFrame ==
    [pc |-> "idle", sim |-> "none", args |-> NoArgs, seed |-> 0, t |-> 0, raced |-> FALSE,
     x1 |-> <<>>, x2 |-> <<>>, u |-> <<>>, xuk |-> <<>>,
     q1 |-> <<>>, q2 |-> <<>>, dq1 |-> <<>>, dq2 |-> <<>>, tau |-> <<>>, data |-> <<>>]

\* entry of a simulator: the parameters are bound, nothing has run
Enter(sim, args, seed) ==
    [IdleFrame EXCEPT !.pc = "seed", !.sim = sim, !.args = args, !.seed = seed]

\* the buffer the simulator returns
Buf(f) == IF f.sim = TwoLink THEN f.data ELSE f.xuk

ICs(f) == 0..(f.args.numICs - 1)
Steps(f) == 0..(f.args.T - 1)

Lo(range) == range[1]
Hi(range) == range[2]

\* variant: the offset is range[1]
InitialConditionFromMax(range, r) == Mul(Hi(range) - Lo(range), r) + Hi(range)

\* (range[1] - range[0]) * torch.rand(numICs) + range[0], one element
InitialCondition(range, r) == Mul(Hi(range) - Lo(range), r) + Lo(range)

\* the vector of initial conditions drawn in generator state g
DrawICs(f, g, range) ==
    LET r == rand(g, f.args.numICs)
    IN  [i \in ICs(f) |-> InitialCondition(range, r[i])]

\* Python's index k of a dimension of size n
Index(k, n) == IF k < 0 THEN k + n ELSE k

\* buf[:, t, col] = vec
Record(buf, t, col, vec) ==
    [i \in DOMAIN buf |-> [buf[i] EXCEPT ![t] = [@ EXCEPT ![col] = vec[i]]]]

---------------------------------------------------------------------------
(* generate_data and generate_data_unforced *)

\* one element of torch.rand(numICs, T) - 0.5
ForcedU(r) == r - Fx(1, 2)

\* variant: the draw is kept, as in generate_data
UnforcedUDrawn(r) == r - Fx(1, 2)

\* one element of torch.rand(numICs, T_step)*0
UnforcedU(r) == Mul(r, 0)

\* variant: the control of the current step, u[:, t]
Dx1Current(dt, mu, x1, u, t) == Mul(Mul(dt, mu), x1) + Mul(dt, u[t])

\* variant: no control at t = 0 instead of u[:, -1]
Dx1NoWrap(dt, mu, x1, u, t) ==
    Mul(Mul(dt, mu), x1) + (IF t = 0 THEN 0 ELSE Mul(dt, u[t - 1]))

\* dx1 = dt * mu * x1 + dt*u[:, t-1] for one trajectory, u its row of controls
Dx1(dt, mu, x1, u, t) ==
    Mul(Mul(dt, mu), x1) + Mul(dt, u[Index(t - 1, Cardinality(DOMAIN u))])

\* dx2 = dt_lam * (x2 - x1**2) for one trajectory
Dx2(dt_lam, x1, x2) == Mul(dt_lam, x2 - Mul(x1, x1))

\* variant: the simulator draws without seeding
SeedStepSkipped(f, g) ==
    [f |-> [f EXCEPT !.pc = IF f.sim = TwoLink THEN "q1" ELSE "x1"], g |-> g]

\* torch.manual_seed(seed)
SeedStep(f, g) ==
    [f |-> [f EXCEPT !.pc = IF f.sim = TwoLink THEN "q1" ELSE "x1"],
     g |-> manual_seed(g, f.seed)]

X1Step(f, g) ==
    [f |-> [f EXCEPT !.x1 = DrawICs(f, g, f.args.x1range), !.pc = "x2"],
     g |-> Advance(g, f.args.numICs)]

X2Step(f, g) ==
    [f |-> [f EXCEPT !.x2 = DrawICs(f, g, f.args.x2range), !.pc = "u"],
     g |-> Advance(g, f.args.numICs)]

\* the draw of u, and the buffer preallocated and given u as its column 2
UStep(f, g) ==
    LET T == f.args.T
        r == rand(g, f.args.numICs * T)
        u == [i \in ICs(f) |-> [t \in Steps(f) |->
                 IF f.sim = Forced THEN ForcedU(r[i * T + t]) ELSE UnforcedU(r[i * T + t])]]
        zeros == [i \in ICs(f) |-> [t \in Steps(f) |-> [c \in 0..2 |-> 0]]]
        xuk == [i \in ICs(f) |-> [t \in Steps(f) |-> [zeros[i][t] EXCEPT ![2] = u[i][t]]]]
    IN  [f |-> [f EXCEPT !.u = u, !.xuk = xuk, !.t = 0, !.pc = "loop"],
         g |-> Advance(g, f.args.numICs * T)]

\* variant: the state is recorded after its update
ScalarBodyRecordAfter(f) ==
    LET a == f.args
        t == f.t
        dt_lam == Mul(a.dt, a.lam)
        dx1 == [i \in ICs(f) |-> Dx1(a.dt, a.mu, f.x1[i], f.u[i], t)]
        dx2 == [i \in ICs(f) |-> Dx2(dt_lam, f.x1[i], f.x2[i])]
        n1 == [i \in ICs(f) |-> f.x1[i] + dx1[i]]
        n2 == [i \in ICs(f) |-> f.x2[i] + dx2[i]]
    IN  [f EXCEPT !.xuk = Record(Record(f.xuk, t, 0, n1), t, 1, n2),
                  !.x1 = n1, !.x2 = n2, !.t = t + 1]

\* one iteration of the loop over t
ScalarBody(f) ==
    LET a == f.args
        t == f.t
        dt_lam == Mul(a.dt, a.lam)
        xuk == Record(Record(f.xuk, t, 0, f.x1), t, 1, f.x2)
        dx1 == [i \in ICs(f) |-> Dx1(a.dt, a.mu, f.x1[i], f.u[i], t)]
        dx2 == [i \in ICs(f) |-> Dx2(dt_lam, f.x1[i], f.x2[i])]
    IN  [f EXCEPT !.xuk = xuk,
                  !.x1 = [i \in ICs(f) |-> f.x1[i] + dx1[i]],
                  !.x2 = [i \in ICs(f) |-> f.x2[i] + dx2[i]],
                  !.t = t + 1]

---------------------------------------------------------------------------
(* generate_two_link_data *)

\* variant: angles measured from the downward vertical (sin for cos)
GravityFromVertical(a, q1, q2) ==
    LET lc1 == RoundDiv(a.l1, 2)
        lc2 == RoundDiv(a.l2, 2)
    IN  <<Mul(Mul(Mul(a.m1, lc1) + Mul(a.m2, a.l1), a.g), Sin(q1))
             + Mul(Mul(Mul(a.m2, lc2), a.g), Sin(q1 + q2)),
          Mul(Mul(Mul(a.m2, lc2), a.g), Sin(q1 + q2))>>

\* the gravity terms <<G1, G2>>
Gravity(a, q1, q2) ==
    LET lc1 == RoundDiv(a.l1, 2)
        lc2 == RoundDiv(a.l2, 2)
        cos_q1q2 == Cos(q1 + q2)
    IN  <<Mul(Mul(Mul(a.m1, lc1) + Mul(a.m2, a.l1), a.g), Cos(q1))
             + Mul(Mul(Mul(a.m2, lc2), a.g), cos_q1q2),
          Mul(Mul(Mul(a.m2, lc2), a.g), cos_q1q2)>>

\* the joint accelerations <<ddq1, ddq2>> of one trajectory
Accel(a, q1, q2, dq1, dq2, tau1, tau2) ==
    LET lc1 == RoundDiv(a.l1, 2)
        lc2 == RoundDiv(a.l2, 2)
        I1 == Mul(a.m1, Mul(lc1, lc1))
        I2 == Mul(a.m2, Mul(lc2, lc2))
        cos_q2 == Cos(q2)
        sin_q2 == Sin(q2)
        M11 == I1 + I2 + Mul(a.m1, Mul(lc1, lc1))
                 + Mul(a.m2, Mul(a.l1, a.l1) + Mul(lc2, lc2)
                               + Mul(Mul(2 * a.l1, lc2), cos_q2))
        M12 == I2 + Mul(a.m2, Mul(lc2, lc2) + Mul(Mul(a.l1, lc2), cos_q2))
        M21 == M12
        M22 == I2 + Mul(a.m2, Mul(lc2, lc2))
        detM == Mul(M11, M22) - Mul(M12, M21)
        invM11 == Div(M22, detM)
        invM12 == Div(0 - M12, detM)
        invM21 == Div(0 - M21, detM)
        invM22 == Div(M11, detM)
        h == Mul(Mul(Mul(0 - a.m2, a.l1), lc2), sin_q2)
        C1 == Mul(Mul(h, dq2), 2 * dq1 + dq2)
        C2 == Mul(h, Mul(dq1, dq1))
        G == Gravity(a, q1, q2)
        rhs1 == tau1 - C1 - G[1]
        rhs2 == tau2 - C2 - G[2]
    IN  <<Mul(invM11, rhs1) + Mul(invM12, rhs2),
          Mul(invM21, rhs1) + Mul(invM22, rhs2)>>

\* variant: explicit Euler, the position moved by the old velocity
EulerOldVelocity(q, dq, ddq, dt) ==
    [dq |-> dq + Mul(ddq, dt), q |-> q + Mul(dq, dt)]

\* dq = dq + ddq * dt; q = q + dq * dt for one joint
Euler(q, dq, ddq, dt) ==
    LET dq_new == dq + Mul(ddq, dt)
    IN  [dq |-> dq_new, q |-> q + Mul(dq_new, dt)]

Q1Step(f, g) ==
    [f |-> [f EXCEPT !.q1 = DrawICs(f, g, f.args.q1_range), !.pc = "q2"],
     g |-> Advance(g, f.args.numICs)]

Q2Step(f, g) ==
    [f |-> [f EXCEPT !.q2 = DrawICs(f, g, f.args.q2_range), !.pc = "dq1"],
     g |-> Advance(g, f.args.numICs)]

Dq1Step(f, g) ==
    [f |-> [f EXCEPT !.dq1 = DrawICs(f, g, f.args.dq1_range), !.pc = "dq2"],
     g |-> Advance(g, f.args.numICs)]

Dq2Step(f, g) ==
    [f |-> [f EXCEPT !.dq2 = DrawICs(f, g, f.args.dq2_range), !.pc = "tau"],
     g |-> Advance(g, f.args.numICs)]

\* the draw of tau, and the buffer preallocated and given tau as its columns 4, 5
TauStep(f, g) ==
    LET T == f.args.T
        r == rand(g, f.args.numICs * T * 2)
        tau == [i \in ICs(f) |-> [t \in Steps(f) |-> [j \in 0..1 |->
                   Mul((r[(i * T + t) * 2 + j] - Fx(1, 2)) * 2, f.args.tau_max)]]]
        data == [i \in ICs(f) |-> [t \in Steps(f) |-> [c \in 0..5 |->
                   IF c >= 4 THEN tau[i][t][c - 4] ELSE 0]]]
    IN  [f |-> [f EXCEPT !.tau = tau, !.data = data, !.t = 0, !.pc = "loop"],
         g |-> Advance(g, f.args.numICs * T * 2)]

\* one iteration of the loop over t
RobotBody(f) ==
    LET a == f.args
        t == f.t
        data == Record(Record(Record(Record(f.data, t, 0, f.q1), t, 1, f.q2),
                              t, 2, f.dq1), t, 3, f.dq2)
        ddq == [i \in ICs(f) |->
                   Accel(a, f.q1[i], f.q2[i], f.dq1[i], f.dq2[i],
                         f.tau[i][t][0], f.tau[i][t][1])]
        e1 == [i \in ICs(f) |-> Euler(f.q1[i], f.dq1[i], ddq[i][1], a.dt)]
        e2 == [i \in ICs(f) |-> Euler(f.q2[i], f.dq2[i], ddq[i][2], a.dt)]
    IN  [f EXCEPT !.data = data,
                  !.dq1 = [i \in ICs(f) |-> e1[i].dq],
                  !.dq2 = [i \in ICs(f) |-> e2[i].dq],
                  !.q1 = [i \in ICs(f) |-> e1[i].q],
                  !.q2 = [i \in ICs(f) |-> e2[i].q],
                  !.t = t + 1]

LoopStep(f, g) ==
    [f |-> IF f.sim = TwoLink THEN RobotBody(f) ELSE ScalarBody(f), g |-> g]

\* the loop has run T times: the simulator is at its return statement
AtReturn(f) == f.pc = "loop" /\ f.t >= f.args.T

\* the next statement of a simulator call, from frame f and generator state g
SimStep(f, g) ==
    CASE f.pc = "seed" -> SeedStep(f, g)
      [] f.pc = "x1" -> X1Step(f, g)
      [] f.pc = "x2" -> X2Step(f, g)
      [] f.pc = "u" -> UStep(f, g)
      [] f.pc = "q1" -> Q1Step(f, g)
      [] f.pc = "q2" -> Q2Step(f, g)
      [] f.pc = "dq1" -> Dq1Step(f, g)
      [] f.pc = "dq2" -> Dq2Step(f, g)
      [] f.pc = "tau" -> TauStep(f, g)
      [] OTHER -> LoopStep(f, g)

\* the buffer a call returns when nothing else touches the generator
RECURSIVE RunAlone(_, _)
RunAlone(f, g) ==
    IF AtReturn(f) THEN Buf(f)
    ELSE LET s == SimStep(f, g) IN RunAlone(s.f, s.g)

---------------------------------------------------------------------------
(* Inputs *)

Seeds == 0..MaxSeed

Ranges == {<<0, 0>>, <<0 - Scale, Scale>>, <<Fx(1, 2), 2 * Scale>>, <<Scale, 0>>}

\* generate_data(x1range=(0,0), x2range=(0,0), numICs=1, mu=0, lam=0, T=5, dt=0.1, ...)
ZeroScenario ==
    [x1range |-> <<0, 0>>, x2range |-> <<0, 0>>, numICs |-> 1,
     mu |-> 0, lam |-> 0, T |-> 5, dt |-> Fx(1, 10)]

ScalarRich ==
    [x1range : Ranges, x2range : Ranges, numICs : 0..2,
     mu : {0, 0 - Scale}, lam : {0, Scale}, T : 0..MaxT, dt : {Fx(1, 10), Fx(1, 2)}]
    \cup {ZeroScenario}

ScalarTiny ==
    {[x1range |-> <<0 - Scale, Scale>>, x2range |-> <<0, Scale>>, numICs |-> 1,
      mu |-> 0 - Scale, lam |-> Scale, T |-> 1, dt |-> Fx(1, 10)]}

ScalarSmall ==
    {[a EXCEPT !.T = 2] : a \in ScalarTiny}
    \cup {[a EXCEPT !.numICs = 2] : a \in ScalarTiny}

\* the default physical parameters of generate_two_link_data
Defaults == [m1 |-> Fx(1, 1), m2 |-> Fx(1, 1), l1 |-> Fx(1, 1), l2 |-> Fx(1, 1),
             g |-> Fx(981, 100)]

RobotArgs(q1r, q2r, dq1r, dq2r, n, T, dt, tau_max) ==
    [q1_range |-> q1r, q2_range |-> q2r, dq1_range |-> dq1r, dq2_range |-> dq2r,
     numICs |-> n, T |-> T, dt |-> dt, tau_max |-> tau_max,
     m1 |-> Defaults.m1, m2 |-> Defaults.m2, l1 |-> Defaults.l1, l2 |-> Defaults.l2,
     g |-> Defaults.g]

RobotRanges == {<<0, 0>>, <<0 - Scale, Scale>>}

RobotRich ==
    {RobotArgs(q1r, q2r, dq1r, dq2r, n, T, Fx(1, 10), tm) :
        q1r \in RobotRanges, q2r \in RobotRanges, dq1r \in RobotRanges,
        dq2r \in RobotRanges, n \in 0..2, T \in 0..MaxT, tm \in {0, Scale}}

RobotSmall ==
    {RobotArgs(<<0 - Scale, Scale>>, <<0, 0>>, <<0, 0>>, <<0 - Scale, Scale>>,
               1, 2, Fx(1, 10), Scale)}

RobotTiny == {[a EXCEPT !.T = 1] : a \in RobotSmall}

ScalarInputs(which) ==
    CASE which = "rich" -> ScalarRich [] which = "small" -> ScalarSmall [] OTHER -> ScalarTiny
RobotInputs(which) ==
    CASE which = "rich" -> RobotRich [] which = "small" -> RobotSmall [] OTHER -> RobotTiny

---------------------------------------------------------------------------
(* The callers *)

NoDriver == [kind |-> "none", budget |-> 0, inputs |-> "none", pc |-> 0,
             args |-> NoArgs, loc |-> <<>>, result |-> <<>>, returned |-> FALSE]

\* a program that calls the simulators freely, budget times
FreeDriver(budget, inputs) == [NoDriver EXCEPT !.kind = "free", !.budget = budget,
                                              !.inputs = inputs]

\* Python's round(n / d) for n, d >= 0: halves go to the even neighbour
PyRound(n, d) ==
    LET q == n \div d
        r == n % d
    IN  IF 2 * r > d \/ (2 * r = d /\ q % 2 = 1) THEN q + 1 ELSE q

Stmt(dest, sim, num, den, seed) ==
    [dest |-> dest, sim |-> sim, num |-> num, den |-> den, seed |-> seed]

\* variant: the train batch generated first
DataGeneratorTrainFirst ==
    [body |-> <<Stmt("train_tensor", Forced, 7, 10, 1),
                Stmt("val_tensor", Forced, 2, 10, 2),
                Stmt("test_tensor", Forced, 1, 10, 3)>>,
     returns |-> <<"train_tensor", "test_tensor", "val_tensor">>]

\* DataGenerator: its three calls in order, and the tuple it returns
DataGenerator ==
    [body |-> <<Stmt("test_tensor", Forced, 1, 10, 1),
                Stmt("val_tensor", Forced, 2, 10, 2),
                Stmt("train_tensor", Forced, 7, 10, 3)>>,
     returns |-> <<"train_tensor", "test_tensor", "val_tensor">>]

TwoLinkRobotDataGenerator ==
    [body |-> <<Stmt("test_tensor", TwoLink, 1, 10, 1),
                Stmt("val_tensor", TwoLink, 2, 10, 2),
                Stmt("train_tensor", TwoLink, 7, 10, 3)>>,
     returns |-> <<"train_tensor", "test_tensor", "val_tensor">>]

DataGenerator_mixed ==
    [body |-> <<Stmt("test_tensor_unforced", Unforced, 5, 100, 1),
                Stmt("test_tensor_forced", Forced, 5, 100, 2),
                Stmt("val_tensor", Forced, 1, 10, 3),
                Stmt("train_tensor_unforced", Unforced, 4, 10, 4),
                Stmt("train_tensor_forced", Forced, 4, 10, 5)>>,
     returns |-> <<"train_tensor_unforced", "train_tensor_forced",
                   "test_tensor_unforced", "test_tensor_forced", "val_tensor">>]

Splitters == {"DataGenerator", "TwoLinkRobotDataGenerator", "DataGenerator_mixed"}

Code(kind) ==
    CASE kind = "DataGenerator" -> DataGenerator
      [] kind = "TwoLinkRobotDataGenerator" -> TwoLinkRobotDataGenerator
      [] OTHER -> DataGenerator_mixed

SplitterDriver(kind, args) ==
    [NoDriver EXCEPT !.kind = kind, !.pc = 1, !.args = args]

Totals == (0..MaxN) \cup {100}

SplitterInputs(kind) ==
    IF kind = "TwoLinkRobotDataGenerator"
    THEN {RobotArgs(<<0 - Scale, Scale>>, <<0, 0>>, <<0, 0>>, <<0 - Scale, Scale>>,
                    N, 1, Fx(1, 10), Scale) : N \in Totals}
    ELSE {[x1range |-> <<0 - Scale, Scale>>, x2range |-> <<0, Scale>>, numICs |-> N,
           mu |-> 0 - Scale, lam |-> Scale, T |-> 1, dt |-> Fx(1, 10)] : N \in Totals}

---------------------------------------------------------------------------
(* Actions *)

\* the positions of a call between its seeding and its last draw
Drawing == {"x1", "x2", "u", "q1", "q2", "dq1", "dq2", "tau"}

\* thread th executes one statement; a call of another thread that is between its
\* seeding and its last draw when th changes the generator is marked as raced
Apply(th, s) ==
    /\ frame' = [o \in Threads |->
                    IF o = th THEN s.f
                    ELSE IF s.g # gen /\ frame[o].pc \in Drawing
                         THEN [frame[o] EXCEPT !.raced = TRUE]
                         ELSE frame[o]]
    /\ gen' = s.g
    /\ UNCHANGED <<drv, log>>

CallScalar(th) ==
    /\ drv[th].kind = "free"
    /\ drv[th].budget > 0
    /\ frame[th].pc = "idle"
    /\ \E sim \in {Forced, Unforced}, a \in ScalarInputs(drv[th].inputs), seed \in Seeds :
          frame' = [frame EXCEPT ![th] = Enter(sim, a, seed)]
    /\ drv' = [drv EXCEPT ![th].budget = @ - 1]
    /\ UNCHANGED <<gen, log>>

CallRobot(th) ==
    /\ drv[th].kind = "free"
    /\ drv[th].budget > 0
    /\ frame[th].pc = "idle"
    /\ \E a \in RobotInputs(drv[th].inputs), seed \in Seeds :
          frame' = [frame EXCEPT ![th] = Enter(TwoLink, a, seed)]
    /\ drv' = [drv EXCEPT ![th].budget = @ - 1]
    /\ UNCHANGED <<gen, log>>

\* a statement  dest = simulator(..., round(num/den * numICs), ..., seed)  of a splitter
SplitCall(th) ==
    /\ drv[th].kind \in Splitters
    /\ frame[th].pc = "idle"
    /\ drv[th].pc <= Len(Code(drv[th].kind).body)
    /\ LET st == Code(drv[th].kind).body[drv[th].pc]
           n == PyRound(st.num * drv[th].args.numICs, st.den)
       IN  frame' = [frame EXCEPT ![th] =
                        Enter(st.sim, [drv[th].args EXCEPT !.numICs = n], st.seed)]
    /\ UNCHANGED <<gen, drv, log>>

\* the return statement of a splitter
SplitReturn(th) ==
    /\ drv[th].kind \in Splitters
    /\ ~drv[th].returned
    /\ drv[th].pc = Len(Code(drv[th].kind).body) + 1
    /\ LET names == Code(drv[th].kind).returns
       IN  drv' = [drv EXCEPT ![th].returned = TRUE,
                              ![th].result = [k \in 1..Len(names) |-> drv[th].loc[names[k]]]]
    /\ UNCHANGED <<gen, frame, log>>

ManualSeed(th) == frame[th].pc = "seed" /\ Apply(th, SeedStep(frame[th], gen))
DrawX1(th) == frame[th].pc = "x1" /\ Apply(th, X1Step(frame[th], gen))
DrawX2(th) == frame[th].pc = "x2" /\ Apply(th, X2Step(frame[th], gen))
DrawU(th) == frame[th].pc = "u" /\ Apply(th, UStep(frame[th], gen))
DrawQ1(th) == frame[th].pc = "q1" /\ Apply(th, Q1Step(frame[th], gen))
DrawQ2(th) == frame[th].pc = "q2" /\ Apply(th, Q2Step(frame[th], gen))
DrawDq1(th) == frame[th].pc = "dq1" /\ Apply(th, Dq1Step(frame[th], gen))
DrawDq2(th) == frame[th].pc = "dq2" /\ Apply(th, Dq2Step(frame[th], gen))
DrawTau(th) == frame[th].pc = "tau" /\ Apply(th, TauStep(frame[th], gen))

Loop(th) ==
    /\ frame[th].pc = "loop"
    /\ frame[th].t < frame[th].args.T
    /\ Apply(th, LoopStep(frame[th], gen))

\* return xuk / return data: the caller receives the buffer
Return(th) ==
    /\ AtReturn(frame[th])
    /\ log' = [log EXCEPT ![th] = Append(@, [sim |-> frame[th].sim, args |-> frame[th].args,
                                             seed |-> frame[th].seed, raced |-> frame[th].raced,
                                             out |-> Buf(frame[th])])]
    /\ frame' = [frame EXCEPT ![th] = IdleFrame]
    /\ drv' = IF drv[th].kind \in Splitters
              THEN LET st == Code(drv[th].kind).body[drv[th].pc]
                   IN  [drv EXCEPT ![th].loc = (st.dest :> Buf(frame[th])) @@ @,
                                   ![th].pc = @ + 1]
              ELSE drv
    /\ UNCHANGED gen

Sim(th) ==
    \/ ManualSeed(th) \/ DrawX1(th) \/ DrawX2(th) \/ DrawU(th)
    \/ DrawQ1(th) \/ DrawQ2(th) \/ DrawDq1(th) \/ DrawDq2(th) \/ DrawTau(th)
    \/ Loop(th) \/ Return(th)

---------------------------------------------------------------------------
(* Specifications *)

InitWith(d1, d2) ==
    /\ gen = GenMod - 1
    /\ frame = [th \in Threads |-> IdleFrame]
    /\ drv = [th \in Threads |-> IF th = 1 THEN d1 ELSE d2]
    /\ log = [th \in Threads |-> <<>>]

\* one simulator call, with any of the inputs
Init == InitWith(FreeDriver(1, "rich"), NoDriver)
Next == \E th \in Threads : CallScalar(th) \/ CallRobot(th) \/ Sim(th)
Spec == Init /\ [][Next]_vars

\* a sequential program of up to MaxCalls simulator calls
InitSeq == InitWith(FreeDriver(MaxCalls, "small"), NoDriver)
SpecSeq == InitSeq /\ [][Next]_vars

\* two threads, each making one simulator call
InitConc == InitWith(FreeDriver(1, "tiny"), FreeDriver(1, "tiny"))
SpecConc == InitConc /\ [][Next]_vars

\* one call of a splitter
InitSplit ==
    \E kind \in Splitters : \E a \in SplitterInputs(kind) :
        InitWith(SplitterDriver(kind, a), NoDriver)
NextSplit == \E th \in Threads : SplitCall(th) \/ SplitReturn(th) \/ Sim(th)
SpecSplit == InitSplit /\ [][NextSplit]_vars

---------------------------------------------------------------------------
(* Properties *)

\* the k-th completed call of thread th
Done(th) == 1..Len(log[th])

SameCall(c, d) == c.sim = d.sim /\ c.seed = d.seed /\ c.args = d.args

ZeroRange == <<0, 0>>

\* C1: in a sequential program, two simulator calls with identical parameters and
\* identical seed return identical buffers, whatever calls were made before or
\* between them.
C1_Determinism ==
    \A th \in Threads : \A i \in Done(th), j \in Done(th) :
        SameCall(log[th][i], log[th][j]) => log[th][i].out = log[th][j].out

\* two identical calls of a simulator with a call of another seed between them
C1_Witness ==
    \E i \in Done(1), k \in Done(1), j \in Done(1) :
        /\ i < k /\ k < j
        /\ SameCall(log[1][i], log[1][j])
        /\ log[1][k].seed # log[1][i].seed
        /\ log[1][i].args.numICs > 0 /\ log[1][i].args.T > 0

\* a completed call of generate_data with mu = lam = 0 and zero initial state
ZeroDrift(c) ==
    /\ c.sim = Forced
    /\ c.args.mu = 0 /\ c.args.lam = 0
    /\ c.args.x1range = ZeroRange /\ c.args.x2range = ZeroRange

\* C2 as stated: generate_data with x1range=(0,0), x2range=(0,0), numICs=1, mu=0,
\* lam=0, T=5, dt=0.1 returns a buffer whose x1 and x2 columns are zero at every
\* time step.
C2_StateStaysZero ==
    \A k \in Done(1) :
        (log[1][k].sim = Forced /\ log[1][k].args = ZeroScenario) =>
            \A i \in DOMAIN log[1][k].out : \A t \in DOMAIN log[1][k].out[i] :
                log[1][k].out[i][t][0] = 0 /\ log[1][k].out[i][t][1] = 0

\* C2 as amended: with mu = lam = 0 and zero initial state the buffer has shape
\* [numICs, T, 3], its x2 column is zero at every time step, its x1 column is zero
\* at step 0, and from then on x1 moves by the control alone:
\* x1[t+1] = x1[t] + dt * u[t-1], the index -1 being the last step.
C2_OnlyControlMovesX1 ==
    \A k \in Done(1) :
        ZeroDrift(log[1][k]) =>
            LET a == log[1][k].args
                out == log[1][k].out
            IN  /\ DOMAIN out = 0..(a.numICs - 1)
                /\ \A i \in DOMAIN out :
                      /\ DOMAIN out[i] = 0..(a.T - 1)
                      /\ \A t \in DOMAIN out[i] :
                            /\ DOMAIN out[i][t] = 0..2
                            /\ out[i][t][1] = 0
                            /\ t = 0 => out[i][t][0] = 0
                            /\ t + 1 < a.T =>
                                  out[i][t + 1][0] =
                                      out[i][t][0] + Mul(a.dt, out[i][Index(t - 1, a.T)][2])

\* the scenario of C2 has returned, and x1 has left zero
C2_Witness ==
    \E k \in Done(1) :
        /\ log[1][k].sim = Forced
        /\ log[1][k].args = ZeroScenario
        /\ log[1][k].seed = 0
        /\ log[1][k].out[0][1][0] # 0

\* C3: in the buffer generate_data_unforced returns, column 2 is zero for every
\* trajectory and time step, and every x1 update is dt * mu * x1 alone.
C3_UnforcedControlZero ==
    /\ \A th \in Threads :
          (frame[th].sim = Unforced /\ frame[th].pc = "loop") =>
              \A i \in ICs(frame[th]) : \A t \in Steps(frame[th]) :
                  frame[th].xuk[i][t][2] = 0
    /\ \A k \in Done(1) :
          log[1][k].sim = Unforced =>
              LET a == log[1][k].args
                  out == log[1][k].out
              IN  \A i \in DOMAIN out : \A t \in DOMAIN out[i] :
                      /\ out[i][t][2] = 0
                      /\ t + 1 < a.T =>
                            out[i][t + 1][0] = out[i][t][0] + Mul(Mul(a.dt, a.mu), out[i][t][0])

\* an unforced call over several steps has returned, with x1 moving
C3_Witness ==
    \E k \in Done(1) :
        /\ log[1][k].sim = Unforced
        /\ log[1][k].args.numICs = 2 /\ log[1][k].args.T >= 3
        /\ log[1][k].out[0][1][0] # log[1][k].out[0][0][0]
        /\ log[1][k].out[1][2][0] # log[1][k].out[1][1][0]

\* c is n / d rounded to the nearest integer, a half going to the even neighbour
IsRounded(c, n, d) ==
    /\ 2 * (d * c - n) <= d
    /\ 2 * (n - d * c) <= d
    /\ (2 * (d * c - n) = d \/ 2 * (n - d * c) = d) => c % 2 = 0

ThreeWay == {"DataGenerator", "TwoLinkRobotDataGenerator"}

\* C4: DataGenerator and TwoLinkRobotDataGenerator with total N call their simulator
\* exactly three times, for test, validation and train in this order, with seeds
\* 1, 2, 3 and counts round(0.1 N), round(0.2 N), round(0.7 N), each rounded on its
\* own, and return (train, test, val); N = 100 gives 70, 10 and 20 trajectories.
C4_SplitterCalls ==
    \A th \in Threads :
        drv[th].kind \in ThreeWay =>
            LET N == drv[th].args.numICs
                L == log[th]
                tenths == <<1, 2, 7>>
            IN  /\ Len(L) <= 3
                /\ \A k \in Done(th) :
                      /\ L[k].sim = (IF drv[th].kind = "DataGenerator" THEN Forced ELSE TwoLink)
                      /\ L[k].seed = k
                      /\ IsRounded(L[k].args.numICs, tenths[k] * N, 10)
                      /\ [L[k].args EXCEPT !.numICs = N] = drv[th].args
                      /\ Cardinality(DOMAIN L[k].out) = L[k].args.numICs
                /\ drv[th].returned =>
                      /\ Len(L) = 3
                      /\ drv[th].result = <<L[3].out, L[1].out, L[2].out>>
                      /\ N = 100 =>
                            /\ Cardinality(DOMAIN drv[th].result[1]) = 70
                            /\ Cardinality(DOMAIN drv[th].result[2]) = 10
                            /\ Cardinality(DOMAIN drv[th].result[3]) = 20

\* DataGenerator has returned for N = 100
C4_Witness ==
    /\ drv[1].kind = "DataGenerator"
    /\ drv[1].returned
    /\ drv[1].args.numICs = 100
    /\ Cardinality(DOMAIN drv[1].result[1]) = 70

\* a splitter has returned batches whose counts do not sum to N
C4_CountsNeedNotSum ==
    /\ drv[1].kind \in ThreeWay
    /\ drv[1].returned
    /\ Cardinality(DOMAIN drv[1].result[1]) + Cardinality(DOMAIN drv[1].result[2])
          + Cardinality(DOMAIN drv[1].result[3]) # drv[1].args.numICs

\* the ranges of the state variables of a call, in the order of the buffer's columns
StateRanges(sim, a) ==
    IF sim = TwoLink THEN <<a.q1_range, a.q2_range, a.dq1_range, a.dq2_range>>
    ELSE <<a.x1range, a.x2range>>

InitialInRange(sim, a, buf) ==
    \A i \in DOMAIN buf :
        0 \in DOMAIN buf[i] =>
            \A c \in 1..Len(StateRanges(sim, a)) :
                LET range == StateRanges(sim, a)[c]
                IN  Lo(range) <= Hi(range) =>
                        Lo(range) <= buf[i][0][c - 1] /\ buf[i][0][c - 1] <= Hi(range)

\* C5: for every trajectory of every simulator the state recorded at time step 0
\* lies within the caller's [min, max] of that state variable, given min <= max.
C5_InitialStateInRange ==
    /\ \A th \in Threads :
          (frame[th].pc = "loop" /\ frame[th].t >= 1) =>
              InitialInRange(frame[th].sim, frame[th].args, Buf(frame[th]))
    /\ \A th \in Threads : \A k \in Done(th) :
          InitialInRange(log[th][k].sim, log[th][k].args, log[th][k].out)

\* a call over a proper range has returned: step 0 is inside it, step 1 has moved
C5_Witness ==
    \E k \in Done(1) :
        /\ log[1][k].sim = Forced
        /\ log[1][k].args.x1range = <<Fx(1, 2), 2 * Scale>>
        /\ log[1][k].args.numICs = 2 /\ log[1][k].args.T >= 2
        /\ log[1][k].out[1][0][0] > Fx(1, 2)
        /\ log[1][k].out[1][1][0] # log[1][k].out[1][0][0]

\* zero torque, zero initial velocities, q1 = q2 = 0, default physical parameters
AtRest(f) ==
    /\ f.sim = TwoLink
    /\ f.args.q1_range = ZeroRange /\ f.args.q2_range = ZeroRange
    /\ f.args.dq1_range = ZeroRange /\ f.args.dq2_range = ZeroRange
    /\ f.args.tau_max = 0
    /\ f.args.m1 = Defaults.m1 /\ f.args.m2 = Defaults.m2
    /\ f.args.l1 = Defaults.l1 /\ f.args.l2 = Defaults.l2 /\ f.args.g = Defaults.g

\* the state <<q1, q2, dq1, dq2>> of trajectory i after s <= f.t updates
RobotAfter(f, i, s) ==
    IF s = f.t THEN <<f.q1[i], f.q2[i], f.dq1[i], f.dq2[i]>>
    ELSE <<f.data[i][s][0], f.data[i][s][1], f.data[i][s][2], f.data[i][s][3]>>

\* C6 as stated: with zero torque, zero initial velocities and q1 = q2 = 0 the
\* accelerations are zero, and the state stays at its initial value.
C6_ZeroIsEquilibrium ==
    \A th \in Threads :
        (AtRest(frame[th]) /\ frame[th].pc = "loop") =>
            \A i \in ICs(frame[th]) : \A s \in 0..frame[th].t :
                RobotAfter(frame[th], i, s) = <<0, 0, 0, 0>>

\* C6 as amended: with zero torque, zero initial velocities and q1 = q2 = 0 the
\* gravity terms are not zero, the accelerations computed from that state are
\* ddq1 < 0 < ddq2, and the state after the first update has left the initial
\* one: dq1, q1 < 0 and dq2, q2 > 0.
C6_ZeroIsNotEquilibrium ==
    \A th \in Threads :
        (AtRest(frame[th]) /\ frame[th].pc = "loop") =>
            \A i \in ICs(frame[th]) :
                /\ RobotAfter(frame[th], i, 0) = <<0, 0, 0, 0>>
                /\ Accel(frame[th].args, 0, 0, 0, 0, 0, 0)[1] < 0
                /\ Accel(frame[th].args, 0, 0, 0, 0, 0, 0)[2] > 0
                /\ frame[th].t >= 1 =>
                      LET n == RobotAfter(frame[th], i, 1)
                      IN  n[1] < 0 /\ n[2] > 0 /\ n[3] < 0 /\ n[4] > 0

\* the arm released at q1 = q2 = 0 has been integrated, and step 1 is recorded
C6_Witness ==
    \E k \in Done(1) :
        /\ log[1][k].sim = TwoLink
        /\ AtRest(log[1][k])
        /\ log[1][k].args.numICs >= 1 /\ log[1][k].args.T >= 2
        /\ log[1][k].out[0][0][2] = 0
        /\ log[1][k].out[0][1][2] < 0

\* the buffer the call returns when it runs alone
Alone(c) == RunAlone(Enter(c.sim, c.args, c.seed), 0)

\* C7: two simulator calls in two threads share the one generator and nothing
\* serialises them: a call returns a buffer other than the one it returns alone
\* only if the other thread changed the generator between its seeding and its
\* last draw, and such an interleaving happens.
C7_OnlyRacedCallsDiffer ==
    \A th \in Threads : \A k \in Done(th) :
        log[th][k].out # Alone(log[th][k]) => log[th][k].raced

\* both calls have returned, and one returned a buffer it does not return alone
C7_Witness ==
    /\ \A th \in Threads : Len(log[th]) = 1
    /\ \E th \in Threads : log[th][1].out # Alone(log[th][1])

\* C8: in generate_data the x1 increment of loop step t is
\* dt * mu * x1 + dt * u[t-1]; at t = 0 the index -1 is the last step T-1.
C8_X1UsesPreviousControl ==
    \A th \in Threads :
        (frame[th].sim = Forced /\ frame[th].pc = "loop") =>
            LET f == frame[th]
                a == f.args
            IN  \A i \in ICs(f) : \A s \in 0..(f.t - 1) :
                    (IF s + 1 = f.t THEN f.x1[i] ELSE f.xuk[i][s + 1][0])
                        = f.xuk[i][s][0] + Mul(Mul(a.dt, a.mu), f.xuk[i][s][0])
                             + Mul(a.dt, f.xuk[i][Index(s - 1, a.T)][2])

\* generate_data has made its first update with a last control that counts and
\* differs from the control of step 0
C8_Witness ==
    \E th \in Threads :
        LET f == frame[th]
        IN  /\ f.sim = Forced /\ f.pc = "loop" /\ f.t >= 1
            /\ f.args.numICs >= 1 /\ f.args.T >= 3
            /\ Mul(f.args.dt, f.u[0][f.args.T - 1]) # 0
            /\ Mul(f.args.dt, f.u[0][f.args.T - 1]) # Mul(f.args.dt, f.u[0][0])

\* C9: in every step of generate_two_link_data the velocities are updated first,
\* with the accelerations of the recorded state and the torque of that step, and
\* the positions then with the updated velocities.
C9_VelocityBeforePosition ==
    \A th \in Threads :
        (frame[th].sim = TwoLink /\ frame[th].pc = "loop") =>
            LET f == frame[th]
                a == f.args
            IN  \A i \in ICs(f) : \A s \in 0..(f.t - 1) :
                    LET r == f.data[i][s]
                        ddq == Accel(a, r[0], r[1], r[2], r[3], r[4], r[5])
                        n == RobotAfter(f, i, s + 1)
                    IN  /\ n[3] = r[2] + Mul(ddq[1], a.dt)
                        /\ n[4] = r[3] + Mul(ddq[2], a.dt)
                        /\ n[1] = r[0] + Mul(n[3], a.dt)
                        /\ n[2] = r[1] + Mul(n[4], a.dt)

\* a step whose new position differs from the one the old velocity would give,
\* under a torque that differs from the torque of the step before
C9_Witness ==
    \E th \in Threads :
        LET f == frame[th]
        IN  /\ f.sim = TwoLink /\ f.pc = "loop" /\ f.t = 2 /\ f.args.T >= 3
            /\ f.args.numICs >= 1
            /\ f.data[0][1][4] # f.data[0][0][4]
            /\ f.q1[0] # f.data[0][1][0] + Mul(f.data[0][1][2], f.args.dt)

\* the state of trajectory i a simulator holds in its registers
Registers(f, i) ==
    IF f.sim = TwoLink THEN <<f.q1[i], f.q2[i], f.dq1[i], f.dq2[i]>>
    ELSE <<f.x1[i], f.x2[i]>>

\* the controls of trajectory i at step s
Controls(f, i, s) ==
    IF f.sim = TwoLink THEN <<f.tau[i][s][0], f.tau[i][s][1]>> ELSE <<f.u[i][s]>>

\* row = state ++ controls
RowIs(row, state, controls) ==
    /\ DOMAIN row = 0..(Len(state) + Len(controls) - 1)
    /\ \A c \in 1..Len(state) : row[c - 1] = state[c]
    /\ \A c \in 1..Len(controls) : row[Len(state) + c - 1] = controls[c]

RecordedBeforeUpdate(th) ==
    LET f == frame[th]
        f2 == frame'[th]
    IN  /\ (f.pc = "loop" /\ f2.pc = "loop") =>
              \A i \in ICs(f) : \A s \in Steps(f) :
                  Controls(f2, i, s) = Controls(f, i, s)
        /\ (f.pc = "loop" /\ f2.pc = "loop" /\ f2.t = f.t + 1) =>
              \A i \in ICs(f) :
                  /\ RowIs(Buf(f2)[i][f.t], Registers(f, i), Controls(f, i, f.t))
                  /\ \A s \in Steps(f) \ {f.t} : Buf(f2)[i][s] = Buf(f)[i][s]
        /\ (AtReturn(f) /\ f2.pc = "idle") =>
              /\ log'[th][Len(log'[th])].out = Buf(f)
              /\ DOMAIN Buf(f) = ICs(f)
              /\ \A i \in ICs(f) : DOMAIN Buf(f)[i] = Steps(f)

\* C10: in each simulator loop, iteration t writes into row t the state held
\* before the update of that iteration, next to the controls of step t drawn before
\* the loop; it changes no other row; the buffer returned is the buffer so filled,
\* T rows, so the update of the last iteration is not in it.
C10_RecordedBeforeUpdate == [][\A th \in Threads : RecordedBeforeUpdate(th)]_vars

\* generate_data is at its return statement: its registers hold the state after T
\* updates, which is not the last row, and the rows differ from each other
C10_Witness ==
    \E th \in Threads :
        LET f == frame[th]
        IN  /\ f.sim = Forced /\ AtReturn(f)
            /\ f.args.numICs >= 1 /\ f.args.T >= 2
            /\ f.x1[0] # f.xuk[0][f.args.T - 1][0]
            /\ f.xuk[0][1][0] # f.xuk[0][0][0]
            /\ f.xuk[0][0][0] # 0

====
